---- MODULE Spec2Model ----
\* A model of rocm-lens (src/base.py): the value formatters format_value and
\* format_bytes, the collector get_gpu_info, the reporter print_gpu_info and
\* the driver main(), with the AMD SMI library as a nondeterministic
\* environment whose calls return an answer or raise.
EXTENDS Integers, Sequences, FiniteSets, TLC

VARIABLES
    pc,         \* position of main(): see the actions below
    gpus,       \* len(gpu_handles) once enumerated, -1 before
    idx,        \* loop variable i of main()
    fate,       \* what each library query does for the current device
    hasEnum,    \* whether amdsmi.amdsmi_wrapper has the vram type enum table
    info,       \* the record get_gpu_info builds / main's gpu_info
    out,        \* standard output: one entry per printed line, [kind, dev]
    lines,      \* the metric lines of the report printed last: <<label, text>>
    col,        \* how get_gpu_info ended: blocks run, queries made, exception
    lib,        \* library-call history: counters and the last call made
    fv,         \* one call of format_value: arguments and result
    fb          \* one call of format_bytes: arguments, loop state and result

vars == <<pc, gpus, idx, fate, hasEnum, info, col, out, lines, lib, fv, fb>>
mainVars == <<pc, gpus, idx, fate, hasEnum, info, col, out, lines, lib>>

\* ------------------------------------------------------------------ bounds
MaxGpus == 2        \* devices the enumeration may return
MaxFaults == 1      \* library queries per device that do not answer in full
MaxDigits == 6      \* base-1024 digits of a byte count given to format_bytes

\* ------------------------------------------------------- Python values
\* A Python value is a record whose single field names its type.
Str(s) == [s |-> s]
Num(n) == [n |-> n]            \* int
Flt(c) == [c |-> c]            \* float, in hundredths
Bool(b) == [b |-> b]
Big(d) == [big |-> d]          \* int as little-endian base-1024 digits
Obj(o) == [obj |-> o]          \* an opaque structure (list or dict)
None == [none |-> TRUE]
NA == Str("N/A")

IsStr(v) == DOMAIN v = {"s"}
IsNum(v) == DOMAIN v = {"n"}
IsFlt(v) == DOMAIN v = {"c"}
IsBool(v) == DOMAIN v = {"b"}
IsBig(v) == DOMAIN v = {"big"}

Ret(s) == [ret |-> s]
Raise(e) == [exc |-> e]
Raised(r) == DOMAIN r = {"exc"}

\* ------------------------------------------------------- string helpers
Char(s, i) == SubSeq(s, i, i)

RECURSIVE LStrip(_)
LStrip(s) == IF Len(s) > 0 /\ Char(s, 1) = " " THEN LStrip(SubSeq(s, 2, Len(s))) ELSE s

RECURSIVE RStrip(_)
RStrip(s) == IF Len(s) > 0 /\ Char(s, Len(s)) = " " THEN RStrip(SubSeq(s, 1, Len(s) - 1)) ELSE s

Strip(s) == RStrip(LStrip(s))

Digits == "0123456789"
IsDigit(ch) == \E d \in 1..10 : Char(Digits, d) = ch
DigitVal(ch) == (CHOOSE d \in 1..10 : Char(Digits, d) = ch) - 1

RECURSIVE AllDigits(_)
AllDigits(s) == Len(s) = 0 \/ (IsDigit(Char(s, 1)) /\ AllDigits(SubSeq(s, 2, Len(s))))

RECURSIVE DecVal(_)
DecVal(s) == IF Len(s) = 0 THEN 0
             ELSE 10 * DecVal(SubSeq(s, 1, Len(s) - 1)) + DigitVal(Char(s, Len(s)))

DotPos(s) == IF \E p \in 1..Len(s) : Char(s, p) = "."
             THEN CHOOSE p \in 1..Len(s) : Char(s, p) = "." /\ \A q \in 1..(p - 1) : Char(s, q) # "."
             ELSE 0

\* float(s) for a string: hundredths, or -1 for ValueError.  Decimal
\* literals with at most two fractional digits are the numeric strings of
\* the model.
ParseFloat(s) ==
    LET p == DotPos(s)
        ip == IF p = 0 THEN s ELSE SubSeq(s, 1, p - 1)
        fp == IF p = 0 THEN "" ELSE SubSeq(s, p + 1, Len(s))
    IN  IF Len(ip) + Len(fp) = 0 \/ ~AllDigits(ip) \/ ~AllDigits(fp) \/ Len(fp) > 2 THEN -1
        ELSE 100 * DecVal(ip) + (IF Len(fp) = 1 THEN 10 * DecVal(fp) ELSE DecVal(fp))

Two(n) == IF n < 10 THEN "0" \o ToString(n) ELSE ToString(n)

\* repr() of a float given in hundredths
ReprFloat(c) ==
    ToString(c \div 100) \o "." \o
        (IF c % 10 = 0 THEN ToString((c % 100) \div 10) ELSE Two(c % 100))

\* str(value), as an f-string renders it
PyStr(v) ==
    CASE IsStr(v) -> v.s
      [] IsNum(v) -> ToString(v.n)
      [] IsFlt(v) -> ReprFloat(v.c)
      [] IsBool(v) -> IF v.b THEN "True" ELSE "False"
      [] OTHER -> "None"

\* float(value): [c |-> hundredths] or [exc |-> error]
ToFloat(v) ==
    CASE IsStr(v) -> IF ParseFloat(v.s) < 0 THEN Raise("ValueError") ELSE [c |-> ParseFloat(v.s)]
      [] IsNum(v) -> [c |-> 100 * v.n]
      [] IsFlt(v) -> [c |-> v.c]
      [] IsBool(v) -> [c |-> IF v.b THEN 100 ELSE 0]
      [] OTHER -> Raise("TypeError")

\* ------------------------------------------------------- format_value
format_value(value, unit, divisor) ==
    IF value = NA \/ value = None THEN Ret("N/A")
    ELSE LET f == ToFloat(value) IN
         IF Raised(f) THEN Ret(Strip(PyStr(value) \o " " \o unit))
         ELSE IF divisor = 0 THEN Raise("ZeroDivisionError")
         ELSE LET numeric_value == f.c \div divisor IN
              IF numeric_value % 100 = 0
              THEN Ret(Strip(ToString(numeric_value \div 100) \o " " \o unit))
              ELSE Ret(Strip(ReprFloat(numeric_value) \o " " \o unit))

\* ------------------------------------------------------- format_bytes
units == <<"B", "KiB", "MiB", "GiB", "TiB">>
divisor == 1024
MantissaBits == 53     \* significand of a Python float (IEEE 754 double)

RECURSIVE Pow2(_)
Pow2(n) == IF n = 0 THEN 1 ELSE 2 * Pow2(n - 1)

RECURSIVE BitLen(_)
BitLen(n) == IF n = 0 THEN 0 ELSE 1 + BitLen(n \div 2)

Digit(d, j) == IF j \in 1..Len(d) THEN d[j] ELSE 0
TopIndex(d) == IF \E j \in 1..Len(d) : d[j] # 0
               THEN CHOOSE j \in 1..Len(d) : d[j] # 0 /\ \A k \in (j + 1)..Len(d) : d[k] = 0
               ELSE 0

\* add a carry into the digits from position j upward
RECURSIVE AddCarry(_, _, _)
AddCarry(d, j, c) ==
    IF c = 0 THEN d
    ELSE IF j > Len(d) THEN Append(d, c)
    ELSE AddCarry([d EXCEPT ![j] = (d[j] + c) % divisor], j + 1, (d[j] + c) \div divisor)

\* float(int): round to nearest, ties to even, at 53 significant bits
Float53(d) ==
    LET n == TopIndex(d)
        bits == IF n = 0 THEN 0 ELSE 10 * (n - 1) + BitLen(d[n])
        drop == bits - MantissaBits
        low == Digit(d, 1) + divisor * Digit(d, 2) + divisor * divisor * Digit(d, 3)
        q == low \div Pow2(drop)
        r == low % Pow2(drop)
        half == Pow2(drop - 1)
        up == IF r > half \/ (r = half /\ q % 2 = 1) THEN 1 ELSE 0
        newlow == (q + up) * Pow2(drop)
        cleared == [j \in 1..Len(d) |->
                      IF j = 1 THEN newlow % divisor
                      ELSE IF j = 2 THEN (newlow \div divisor) % divisor
                      ELSE IF j = 3 THEN 0 ELSE d[j]]
    IN  IF drop <= 0 THEN d
        ELSE AddCarry(cleared, 3, newlow \div (divisor * divisor))

\* A float of format_bytes: the digits d scaled down by divisor^sh.
\* bytes_value >= divisor
GeDivisor(bv) == \E j \in 1..Len(bv.d) : j >= bv.sh + 2 /\ bv.d[j] # 0

\* the loop condition without its test of unit_index
LoopCondNoCap(bv, unit_index) == GeDivisor(bv)

\* the loop condition and the loop body of format_bytes
LoopCond(bv, unit_index) == GeDivisor(bv) /\ unit_index < Len(units) - 1
LoopBody(bv) == [bv EXCEPT !.sh = bv.sh + 1]

RECURSIVE RunLoop(_, _)
RunLoop(bv, unit_index) ==
    IF LoopCond(bv, unit_index) THEN RunLoop(LoopBody(bv), unit_index + 1)
    ELSE [bv |-> bv, unit_index |-> unit_index]

\* integer part of a float of format_bytes
RECURSIVE IntPartFrom(_, _)
IntPartFrom(d, j) == IF j > Len(d) THEN 0 ELSE d[j] + divisor * IntPartFrom(d, j + 1)
IntPart(bv) == IntPartFrom(bv.d, bv.sh + 1)

\* 100 * fraction, digit by digit from the lowest: the integer carry, the
\* top digit of what remains and whether anything remains below it
RECURSIVE Times100(_, _, _, _)
Times100(d, j, sh, acc) ==
    IF j > sh THEN acc
    ELSE LET t == 100 * Digit(d, j) + acc.carry IN
         Times100(d, j + 1, sh,
                  [carry |-> t \div divisor,
                   top |-> t % divisor,
                   rest |-> acc.rest \/ acc.top # 0])

\* f"{bytes_value:.2f}": round to nearest hundredth, ties to even
Fix2(bv) ==
    LET m == Times100(bv.d, 1, bv.sh, [carry |-> 0, top |-> 0, rest |-> FALSE])
        up == IF m.top > divisor \div 2
                 \/ (m.top = divisor \div 2 /\ (m.rest \/ m.carry % 2 = 1))
              THEN 1 ELSE 0
        h == m.carry + up
    IN  ToString(IntPart(bv) + (h \div 100)) \o "." \o Two(h % 100)

RECURSIVE NumDigits(_)
NumDigits(n) == IF n = 0 THEN <<>> ELSE <<n % divisor>> \o NumDigits(n \div divisor)

\* float(bytes_value) for format_bytes: [d, sh] or [exc]
BytesFloat(v) ==
    CASE IsBig(v) -> [d |-> Float53(v.big), sh |-> 0]
      [] IsNum(v) -> [d |-> NumDigits(v.n), sh |-> 0]
      [] IsStr(v) /\ ParseFloat(v.s) >= 0 /\ ParseFloat(v.s) % 100 = 0 ->
             [d |-> NumDigits(ParseFloat(v.s) \div 100), sh |-> 0]
      [] IsStr(v) -> Raise("ValueError")
      [] OTHER -> Raise("TypeError")

\* format_bytes(bytes_value) with use_binary=True, the value at its only
\* call site
format_bytes(bytes_value) ==
    IF bytes_value = NA \/ bytes_value = None THEN "N/A"
    ELSE LET f == BytesFloat(bytes_value) IN
         IF Raised(f) THEN PyStr(bytes_value) \o " B"
         ELSE LET e == RunLoop(f, 0) IN Fix2(e.bv) \o " " \o units[e.unit_index + 1]

\* ------------------------------------------------------- the library
\* The queries get_gpu_info makes, named after the amdsmi functions (the
\* two amdsmi_get_power_info calls and the clock and temperature variants
\* are distinct queries).
ScalarCalls == {"device_uuid", "device_bdf", "temp_edge", "temp_junction", "temp_vram",
                "temp_critical", "perf_level", "vram_vendor", "fan_speed", "fan_rpms",
                "fan_speed_max", "ecc_enabled", "bad_page_info", "numa_node"}
DictCalls == {"asic_info", "board_info", "driver_info", "vbios_info", "fw_info",
              "gpu_activity", "metrics_info", "clock_gfx", "clock_mem", "clk_freq",
              "power_info", "power_cap_info", "energy_count", "power_info_2",
              "vram_usage", "vram_info", "total_ecc_count", "pcie_info",
              "pci_throughput", "xgmi_info", "violation_status", "process_list"}
Calls == ScalarCalls \cup DictCalls

ViolationFlags == {"p", "t", "h", "pt", "ph", "th", "pth"}

\* Answers of a query other than the full one ("ok"): it raises, it returns
\* an empty structure, or it returns a structure with keys missing or with
\* unusual content.
Variants(c) ==
    {"raise"} \cup (IF c \in DictCalls THEN {"empty"} ELSE {})
    \cup (CASE c = "asic_info" -> {"no_market_name"}
            [] c = "metrics_info" -> {"all_na"}
            [] c = "vram_usage" -> {"zero_total", "no_total"}
            [] c = "vram_info" -> {"unknown_type"}
            [] c = "bad_page_info" -> {"not_list"}
            [] c = "pcie_info" -> {"no_static"}
            [] c = "pci_throughput" -> {"not_dict"}
            [] c = "violation_status" -> ViolationFlags
            [] c = "process_list" -> {"bare_entry"}
            [] OTHER -> {})

Nominal == [c \in Calls |-> "ok"]

\* the fates with at most k queries that do not answer in full
RECURSIVE FatesUpTo(_)
FatesUpTo(k) ==
    IF k = 0 THEN {Nominal}
    ELSE LET F == FatesUpTo(k - 1) IN
         F \cup UNION {{[f EXCEPT ![c] = v] : v \in Variants(c), f \in F} : c \in Calls}

Fates == FatesUpTo(MaxFaults)

List(q) == [list |-> q]
IsList(v) == DOMAIN v = {"list"}
Dict(d) == [dict |-> d]
IsDict(v) == DOMAIN v = {"dict"}

\* dict.get(key, default) and truthiness of a dict
Get(d, k, def) == IF k \in DOMAIN d THEN d[k] ELSE def
NonEmpty(d) == DOMAIN d # {}
Truthy(v) == IF IsBool(v) THEN v.b ELSE v # None

\* the process entry of the full answer: a name longer than 20 characters
\* and 3 MiB of VRAM
ProcessEntry ==
    [pid |-> Num(4242), name |-> Str("python3-training-worker-7"),
     memory_usage |-> [vram_mem |-> Big(<<0, 0, 3>>)],
     engine_usage |-> [gfx |-> Num(10), enc |-> Num(0)]]

\* the structure a dict query returns in full
Full(c) ==
    CASE c = "asic_info" ->
            [market_name |-> Str("Radeon RX 7900"), vendor_name |-> Str("AMD"),
             device_id |-> Str("0x744c"), num_of_compute_units |-> Num(96),
             target_graphics_version |-> Str("gfx1100")]
      [] c = "board_info" ->
            [product_name |-> Str("NAVI31 board"), manufacturer_name |-> Str("Sapphire"),
             product_serial |-> Str("SN0042")]
      [] c = "driver_info" -> [driver_version |-> Str("6.3.6"), driver_date |-> Str("2024/01/01")]
      [] c = "vbios_info" -> [version |-> Str("113-D70401"), build_date |-> Str("2023/03/02")]
      [] c = "fw_info" -> [fw_list |-> List(<<Str("SMC")>>)]
      [] c = "gpu_activity" ->
            [gfx_activity |-> Num(30), umc_activity |-> Num(20), mm_activity |-> Num(10)]
      [] c = "metrics_info" -> [vcn_activity |-> List(<<Num(10), NA, Num(30)>>)]
      [] c = "clock_gfx" -> [clk |-> Num(2100), min_clk |-> Num(500), max_clk |-> Num(2500)]
      [] c = "clock_mem" -> [clk |-> Num(1200), min_clk |-> Num(96), max_clk |-> Num(1250)]
      [] c = "clk_freq" -> [frequency |-> List(<<Num(500), Num(2500)>>)]
      [] c \in {"power_info", "power_info_2"} ->
            [current_socket_power |-> Num(120), average_socket_power |-> Num(110),
             power_limit |-> Num(300), gfx_voltage |-> Num(900),
             soc_voltage |-> Num(850), mem_voltage |-> Num(1350)]
      [] c = "power_cap_info" ->
            [power_cap |-> Num(280), default_power_cap |-> Num(303),
             min_power_cap |-> Num(100), max_power_cap |-> Num(350)]
      [] c = "energy_count" -> [energy_accumulator |-> Num(123456)]
      [] c = "vram_usage" -> [vram_used |-> Num(512), vram_total |-> Num(1024)]
      [] c = "vram_info" -> [vram_type |-> Num(9), vram_bit_width |-> Num(384)]
      [] c = "total_ecc_count" -> [correctable_count |-> Num(3), uncorrectable_count |-> Num(1)]
      [] c = "pcie_info" ->
            [pcie_metric |-> Dict([pcie_width |-> Num(16), pcie_speed |-> Num(32),
                                   pcie_replay_count |-> Num(7)]),
             pcie_static |-> Dict([max_pcie_width |-> Num(17), max_pcie_speed |-> Num(33)])]
      [] c = "pci_throughput" -> [sent |-> Num(100), received |-> Num(200)]
      [] c = "xgmi_info" -> [xgmi_lanes |-> Num(4)]
      [] c = "violation_status" ->
            [active_ppt_pwr |-> Bool(FALSE), active_socket_thrm |-> Bool(FALSE),
             active_prochot_thrm |-> Bool(FALSE)]
      [] c = "process_list" -> [procs |-> List(<<ProcessEntry>>)]

Without(d, k) == [x \in DOMAIN d \ {k} |-> d[x]]
HasFlag(v, ch) == \E j \in 1..Len(v) : SubSeq(v, j, j) = ch

\* what a dict query returns under fate v (v is not "raise")
Reply(c, v) ==
    CASE v = "ok" -> Full(c)
      [] v = "empty" -> <<>>
      [] v = "no_market_name" -> Without(Full(c), "market_name")
      [] v = "all_na" -> [vcn_activity |-> List(<<NA, NA>>)]
      [] v = "zero_total" -> [vram_used |-> Num(0), vram_total |-> Num(0)]
      [] v = "no_total" -> Without(Full(c), "vram_total")
      [] v = "unknown_type" -> [Full(c) EXCEPT !.vram_type = Num(99)]
      [] v = "no_static" -> Without(Full(c), "pcie_static")
      [] v = "bare_entry" -> [procs |-> List(<< <<>> >>)]
      [] v \in ViolationFlags ->
            [active_ppt_pwr |-> Bool(HasFlag(v, "p")),
             active_socket_thrm |-> Bool(HasFlag(v, "t")),
             active_prochot_thrm |-> Bool(HasFlag(v, "h"))]

\* the value a scalar query returns
Scalar(c) ==
    CASE c = "device_uuid" -> Str("a1ff74a0-0000-1000-80e3-c1b2a3d4e5f6")
      [] c = "device_bdf" -> Str("0000:03:00.0")
      [] c = "temp_edge" -> Num(45)
      [] c = "temp_junction" -> Num(55)
      [] c = "temp_vram" -> Num(50)
      [] c = "temp_critical" -> Num(100)
      [] c = "perf_level" -> Str("AMDSMI_DEV_PERF_LEVEL_AUTO")
      [] c = "vram_vendor" -> Str("SAMSUNG")
      [] c = "fan_speed" -> Num(40)
      [] c = "fan_rpms" -> Num(1500)
      [] c = "fan_speed_max" -> Num(3300)
      [] c = "ecc_enabled" -> Num(1)
      [] c = "numa_node" -> Num(0)

\* amdsmi.amdsmi_wrapper.amdsmi_vram_type_t__enumvalues, where it exists
enum_values == [x \in {9} |-> "AMDSMI_VRAM_TYPE_GDDR6"]
VramTypePrefix == "AMDSMI_VRAM_TYPE_"

\* ------------------------------------------------------- get_gpu_info
\* info[k] = v, and several such assignments at once
Put(info_, k, v) == [x \in DOMAIN info_ \cup {k} |-> IF x = k THEN v ELSE info_[x]]
Upd(info_, rec) == rec @@ info_

\* s.replace(sub, "")
RECURSIVE RemoveAll(_, _)
RemoveAll(s, sub) ==
    IF Len(s) < Len(sub) \/ Len(sub) = 0 THEN s
    ELSE IF SubSeq(s, 1, Len(sub)) = sub THEN RemoveAll(SubSeq(s, Len(sub) + 1, Len(s)), sub)
    ELSE SubSeq(s, 1, 1) \o RemoveAll(SubSeq(s, 2, Len(s)), sub)

\* The result of a probe block: the record and the queries it made.
Res(info_, m) == [info |-> info_, made |-> m]

\* A block that sets a default and assigns the value of one scalar query.
ScalarBlock(info_, ft, c, field) ==
    IF ft[c] = "raise" THEN Res(Put(info_, field, NA), {c})
    ELSE Res(Put(info_, field, Scalar(c)), {c})

\* A block that sets defaults and copies keys of one dict query with
\* .get(key, "N/A"); keys is a sequence of <<field, key>>.
RECURSIVE GetAll(_, _, _)
GetAll(info_, d, keys) ==
    IF keys = <<>> THEN info_
    ELSE GetAll(Put(info_, keys[1][1], Get(d, keys[1][2], NA)), d, Tail(keys))

RECURSIVE Defaults(_, _)
Defaults(info_, keys) ==
    IF keys = <<>> THEN info_ ELSE Defaults(Put(info_, keys[1][1], NA), Tail(keys))

DictBlock(info_, ft, c, keys) ==
    IF ft[c] = "raise" THEN Res(Defaults(info_, keys), {c})
    ELSE Res(GetAll(Defaults(info_, keys), Reply(c, ft[c]), keys), {c})

\* lines 45-59
BlockAsic(info_, ft) ==
    IF ft["asic_info"] = "raise"
    THEN Res(Put(info_, "product_name", Str("Unknown GPU")), {"asic_info"})
    ELSE LET i1 == GetAll(info_, Reply("asic_info", ft["asic_info"]),
                          << <<"product_name", "market_name">>, <<"vendor_name", "vendor_name">>,
                             <<"device_id", "device_id">>,
                             <<"compute_units", "num_of_compute_units">>,
                             <<"gfx_version", "target_graphics_version">> >>)
             board_info == Reply("board_info", ft["board_info"])
         IN  IF i1["product_name"] # NA THEN Res(i1, {"asic_info"})
             ELSE IF ft["board_info"] = "raise"
             THEN Res(Put(i1, "product_name", Str("Unknown GPU")), {"asic_info", "board_info"})
             ELSE Res(Upd(i1, [product_name |-> Get(board_info, "product_name", Str("Unknown GPU")),
                               manufacturer |-> Get(board_info, "manufacturer_name", NA),
                               serial |-> Get(board_info, "product_serial", NA)]),
                      {"asic_info", "board_info"})

\* lines 62-66
BlockUuid(info_, ft) == ScalarBlock(info_, ft, "device_uuid", "uuid")
\* lines 68-72
BlockBdf(info_, ft) == ScalarBlock(info_, ft, "device_bdf", "bdf")
\* lines 74-81
BlockDriver(info_, ft) ==
    DictBlock(info_, ft, "driver_info",
              << <<"driver_version", "driver_version">>, <<"driver_date", "driver_date">> >>)
\* lines 83-90
BlockVbios(info_, ft) ==
    DictBlock(info_, ft, "vbios_info",
              << <<"vbios_version", "version">>, <<"vbios_date", "build_date">> >>)
\* lines 92-98
BlockFirmware(info_, ft) ==
    LET fw_info == Reply("fw_info", ft["fw_info"])
        i0 == Put(info_, "firmware_info", NA)
    IN  IF ft["fw_info"] = "raise" THEN Res(i0, {"fw_info"})
        ELSE IF "fw_list" \in DOMAIN fw_info /\ fw_info["fw_list"] # List(<<>>)
        THEN Res(Put(i0, "firmware_info", Dict(fw_info)), {"fw_info"})
        ELSE Res(i0, {"fw_info"})

\* lines 100-108: three sensor queries in one try block
BlockTemp(info_, ft) ==
    LET i0 == Upd(info_, [edge_temp |-> NA, junction_temp |-> NA, mem_temp |-> NA])
        i1 == Put(i0, "edge_temp", Scalar("temp_edge"))
        i2 == Put(i1, "junction_temp", Scalar("temp_junction"))
        i3 == Put(i2, "mem_temp", Scalar("temp_vram"))
    IN  IF ft["temp_edge"] = "raise" THEN Res(i0, {"temp_edge"})
        ELSE IF ft["temp_junction"] = "raise" THEN Res(i1, {"temp_edge", "temp_junction"})
        ELSE IF ft["temp_vram"] = "raise" THEN Res(i2, {"temp_edge", "temp_junction", "temp_vram"})
        ELSE Res(i3, {"temp_edge", "temp_junction", "temp_vram"})

\* lines 110-114
BlockCritical(info_, ft) == ScalarBlock(info_, ft, "temp_critical", "critical_temp")
\* lines 116-125
BlockActivity(info_, ft) ==
    DictBlock(info_, ft, "gpu_activity",
              << <<"gpu_util", "gfx_activity">>, <<"mem_util", "umc_activity">>,
                 <<"mm_util", "mm_activity">> >>)

RECURSIVE Valid(_)
Valid(q) == IF q = <<>> THEN <<>>
            ELSE (IF q[1] # NA THEN <<q[1]>> ELSE <<>>) \o Valid(Tail(q))
RECURSIVE Sum(_)
Sum(q) == IF q = <<>> THEN 0 ELSE q[1].n + Sum(Tail(q))

\* lines 127-139: the mean of the VCN channels that are not "N/A"
BlockMetrics(info_, ft) ==
    LET metrics == Reply("metrics_info", ft["metrics_info"])
        i0 == Upd(info_, [encoder_util |-> NA, decoder_util |-> NA])
        valid_values == Valid(metrics["vcn_activity"].list)
    IN  IF ft["metrics_info"] = "raise" THEN Res(i0, {"metrics_info"})
        ELSE IF NonEmpty(metrics) /\ "vcn_activity" \in DOMAIN metrics
                /\ IsList(metrics["vcn_activity"]) /\ metrics["vcn_activity"].list # <<>>
                /\ valid_values # <<>>
        THEN Res(Put(i0, "encoder_util", Flt((100 * Sum(valid_values)) \div Len(valid_values))),
                 {"metrics_info"})
        ELSE Res(i0, {"metrics_info"})

ClockDefaults == [gpu_clock |-> NA, gpu_clock_min |-> NA, gpu_clock_max |-> NA,
                  mem_clock |-> NA, mem_clock_min |-> NA, mem_clock_max |-> NA]
\* lines 140-153
BlockGfxClock(info_, ft) ==
    LET i0 == Upd(info_, ClockDefaults) IN
    IF ft["clock_gfx"] = "raise" THEN Res(i0, {"clock_gfx"})
    ELSE Res(GetAll(i0, Reply("clock_gfx", ft["clock_gfx"]),
                    << <<"gpu_clock", "clk">>, <<"gpu_clock_min", "min_clk">>,
                       <<"gpu_clock_max", "max_clk">> >>), {"clock_gfx"})
\* lines 155-161
BlockMemClock(info_, ft) ==
    IF ft["clock_mem"] = "raise" THEN Res(info_, {"clock_mem"})
    ELSE Res(GetAll(info_, Reply("clock_mem", ft["clock_mem"]),
                    << <<"mem_clock", "clk">>, <<"mem_clock_min", "min_clk">>,
                       <<"mem_clock_max", "max_clk">> >>), {"clock_mem"})
\* lines 163-168
BlockFreqs(info_, ft) ==
    LET gpu_freqs == Reply("clk_freq", ft["clk_freq"]) IN
    IF ft["clk_freq"] = "raise" THEN Res(Put(info_, "gpu_available_freqs", List(<<>>)), {"clk_freq"})
    ELSE IF "frequency" \in DOMAIN gpu_freqs
    THEN Res(Put(info_, "gpu_available_freqs", Get(gpu_freqs, "frequency", List(<<>>))), {"clk_freq"})
    ELSE Res(info_, {"clk_freq"})
\* lines 170-174
BlockPerf(info_, ft) == ScalarBlock(info_, ft, "perf_level", "perf_level")

PowerDefaults == [power |-> NA, power_avg |-> NA, power_cap |-> NA,
                  power_cap_default |-> NA, power_cap_min |-> NA, power_cap_max |-> NA]
\* lines 177-190
BlockPower(info_, ft) ==
    LET i0 == Upd(info_, PowerDefaults) IN
    IF ft["power_info"] = "raise" THEN Res(i0, {"power_info"})
    ELSE Res(GetAll(i0, Reply("power_info", ft["power_info"]),
                    << <<"power", "current_socket_power">>, <<"power_avg", "average_socket_power">>,
                       <<"power_cap", "power_limit">> >>), {"power_info"})
\* lines 192-200: power_cap falls back to the value already in the record
BlockPowerCap(info_, ft) ==
    LET power_cap_info == Reply("power_cap_info", ft["power_cap_info"]) IN
    IF ft["power_cap_info"] = "raise" THEN Res(info_, {"power_cap_info"})
    ELSE Res(Upd(info_, [power_cap |-> Get(power_cap_info, "power_cap", info_["power_cap"]),
                         power_cap_default |-> Get(power_cap_info, "default_power_cap", NA),
                         power_cap_min |-> Get(power_cap_info, "min_power_cap", NA),
                         power_cap_max |-> Get(power_cap_info, "max_power_cap", NA)]),
             {"power_cap_info"})
\* lines 203-208
BlockEnergy(info_, ft) ==
    DictBlock(info_, ft, "energy_count", << <<"energy_counter", "energy_accumulator">> >>)
\* lines 211-220
BlockVoltage(info_, ft) ==
    DictBlock(info_, ft, "power_info_2",
              << <<"voltage_gfx", "gfx_voltage">>, <<"voltage_soc", "soc_voltage">>,
                 <<"voltage_mem", "mem_voltage">> >>)
\* lines 223-230
BlockVram(info_, ft) ==
    DictBlock(info_, ft, "vram_usage",
              << <<"vram_used", "vram_used">>, <<"vram_total", "vram_total">> >>)

\* lines 233-254: type, bit width and, nested, the vendor query
BlockVramInfo(info_, ft, has_enum) ==
    LET vram_details == Reply("vram_info", ft["vram_info"])
        i0 == Upd(info_, [vram_type |-> NA, vram_vendor |-> NA, vram_bit_width |-> NA])
        vram_type_val == Get(vram_details, "vram_type", NA)
        i1 == IF has_enum
              THEN (IF IsNum(vram_type_val) /\ vram_type_val.n \in DOMAIN enum_values
                    THEN Put(i0, "vram_type",
                             Str(RemoveAll(enum_values[vram_type_val.n], VramTypePrefix)))
                    ELSE i0)
              ELSE Put(i0, "vram_type", vram_type_val)
        i2 == Put(i1, "vram_bit_width", Get(vram_details, "vram_bit_width", NA))
    IN  IF ft["vram_info"] = "raise" THEN Res(i0, {"vram_info"})
        ELSE IF ~NonEmpty(vram_details) THEN Res(i0, {"vram_info"})
        ELSE IF ft["vram_vendor"] = "raise" THEN Res(i2, {"vram_info", "vram_vendor"})
        ELSE Res(Put(i2, "vram_vendor", Scalar("vram_vendor")), {"vram_info", "vram_vendor"})

\* lines 257-264: two fan queries in one try block
BlockFan(info_, ft) ==
    LET i0 == Upd(info_, [fan_speed_pct |-> NA, fan_speed_rpm |-> NA, fan_max_rpm |-> NA])
        i1 == Put(i0, "fan_speed_pct", Scalar("fan_speed"))
    IN  IF ft["fan_speed"] = "raise" THEN Res(i0, {"fan_speed"})
        ELSE IF ft["fan_rpms"] = "raise" THEN Res(i1, {"fan_speed", "fan_rpms"})
        ELSE Res(Put(i1, "fan_speed_rpm", Scalar("fan_rpms")), {"fan_speed", "fan_rpms"})
\* lines 266-269
BlockFanMax(info_, ft) ==
    IF ft["fan_speed_max"] = "raise" THEN Res(info_, {"fan_speed_max"})
    ELSE Res(Put(info_, "fan_max_rpm", Scalar("fan_speed_max")), {"fan_speed_max"})
\* lines 272-279
BlockEccEnabled(info_, ft) ==
    LET i0 == Upd(info_, [ecc_enabled |-> NA, single_ecc |-> NA, double_ecc |-> NA])
        ecc_enabled == Scalar("ecc_enabled")
    IN  IF ft["ecc_enabled"] = "raise" THEN Res(i0, {"ecc_enabled"})
        ELSE Res(Put(i0, "ecc_enabled",
                     IF ecc_enabled # NA THEN Bool(ecc_enabled # Num(0)) ELSE NA), {"ecc_enabled"})
\* lines 281-286
BlockEccCount(info_, ft) ==
    IF ft["total_ecc_count"] = "raise" THEN Res(info_, {"total_ecc_count"})
    ELSE Res(GetAll(info_, Reply("total_ecc_count", ft["total_ecc_count"]),
                    << <<"single_ecc", "correctable_count">>,
                       <<"double_ecc", "uncorrectable_count">> >>), {"total_ecc_count"})
\* lines 289-294
BlockBadPages(info_, ft) ==
    LET bad_pages == IF ft["bad_page_info"] = "not_list" THEN Str("No bad pages found.")
                     ELSE List(<<Num(4096), Num(8192)>>)
        i0 == Put(info_, "bad_pages", NA)
    IN  IF ft["bad_page_info"] = "raise" THEN Res(i0, {"bad_page_info"})
        ELSE Res(Put(i0, "bad_pages", IF IsList(bad_pages) THEN Num(Len(bad_pages.list)) ELSE NA),
                 {"bad_page_info"})
\* lines 297-315
BlockPcie(info_, ft) ==
    LET pcie_info == Reply("pcie_info", ft["pcie_info"])
        i0 == Upd(info_, [pcie_width |-> NA, pcie_speed |-> NA, pcie_max_width |-> NA,
                          pcie_max_speed |-> NA, pcie_replay_count |-> NA])
        i1 == IF "pcie_metric" \in DOMAIN pcie_info
              THEN GetAll(i0, pcie_info["pcie_metric"].dict,
                          << <<"pcie_width", "pcie_width">>, <<"pcie_speed", "pcie_speed">>,
                             <<"pcie_replay_count", "pcie_replay_count">> >>)
              ELSE i0
        i2 == IF "pcie_static" \in DOMAIN pcie_info
              THEN GetAll(i1, pcie_info["pcie_static"].dict,
                          << <<"pcie_max_width", "max_pcie_width">>,
                             <<"pcie_max_speed", "max_pcie_speed">> >>)
              ELSE i1
    IN  IF ft["pcie_info"] = "raise" THEN Res(i0, {"pcie_info"}) ELSE Res(i2, {"pcie_info"})
\* lines 318-326
BlockThroughput(info_, ft) ==
    LET i0 == Upd(info_, [pcie_tx |-> NA, pcie_rx |-> NA]) IN
    IF ft["pci_throughput"] \in {"raise", "not_dict"} THEN Res(i0, {"pci_throughput"})
    ELSE Res(GetAll(i0, Reply("pci_throughput", ft["pci_throughput"]),
                    << <<"pcie_tx", "sent">>, <<"pcie_rx", "received">> >>), {"pci_throughput"})
\* lines 329-335
BlockXgmi(info_, ft) ==
    LET xgmi_info == Reply("xgmi_info", ft["xgmi_info"])
        i0 == Put(info_, "xgmi_info", NA)
    IN  IF ft["xgmi_info"] = "raise" \/ ~NonEmpty(xgmi_info) THEN Res(i0, {"xgmi_info"})
        ELSE Res(Put(i0, "xgmi_info", Dict(xgmi_info)), {"xgmi_info"})
\* lines 338-342
BlockNuma(info_, ft) == ScalarBlock(info_, ft, "numa_node", "numa_node")

\* ", ".join(q)
RECURSIVE Join(_)
Join(q) == IF q = <<>> THEN ""
           ELSE IF Len(q) = 1 THEN q[1] ELSE q[1] \o ", " \o Join(Tail(q))

\* lines 345-363
BlockThrottle(info_, ft) ==
    LET violation == Reply("violation_status", ft["violation_status"])
        i0 == Put(info_, "throttle_status", NA)
        throttle_types ==
            (IF Truthy(Get(violation, "active_ppt_pwr", Bool(FALSE))) THEN <<"Power">> ELSE <<>>)
            \o (IF Truthy(Get(violation, "active_socket_thrm", Bool(FALSE))) THEN <<"Thermal">> ELSE <<>>)
            \o (IF Truthy(Get(violation, "active_prochot_thrm", Bool(FALSE))) THEN <<"Prochot">> ELSE <<>>)
    IN  IF ft["violation_status"] = "raise" \/ ~NonEmpty(violation) THEN Res(i0, {"violation_status"})
        ELSE IF throttle_types # <<>>
        THEN Res(Put(i0, "throttle_status", Str(Join(throttle_types))), {"violation_status"})
        ELSE Res(Put(i0, "throttle_status", Str("None")), {"violation_status"})
\* lines 365-371
BlockProcesses(info_, ft) ==
    LET processes == IF ft["process_list"] = "empty" THEN List(<<>>)
                     ELSE Reply("process_list", ft["process_list"]).procs
        i0 == Put(info_, "processes", List(<<>>))
    IN  IF ft["process_list"] = "raise" \/ processes = List(<<>>) THEN Res(i0, {"process_list"})
        ELSE Res(Put(i0, "processes", processes), {"process_list"})

NumBlocks == 31

\* the b-th probe block of get_gpu_info, in source order
Block(b, info_, ft, has_enum) ==
    CASE b = 1 -> BlockAsic(info_, ft)
      [] b = 2 -> BlockUuid(info_, ft)
      [] b = 3 -> BlockBdf(info_, ft)
      [] b = 4 -> BlockDriver(info_, ft)
      [] b = 5 -> BlockVbios(info_, ft)
      [] b = 6 -> BlockFirmware(info_, ft)
      [] b = 7 -> BlockTemp(info_, ft)
      [] b = 8 -> BlockCritical(info_, ft)
      [] b = 9 -> BlockActivity(info_, ft)
      [] b = 10 -> BlockMetrics(info_, ft)
      [] b = 11 -> BlockGfxClock(info_, ft)
      [] b = 12 -> BlockMemClock(info_, ft)
      [] b = 13 -> BlockFreqs(info_, ft)
      [] b = 14 -> BlockPerf(info_, ft)
      [] b = 15 -> BlockPower(info_, ft)
      [] b = 16 -> BlockPowerCap(info_, ft)
      [] b = 17 -> BlockEnergy(info_, ft)
      [] b = 18 -> BlockVoltage(info_, ft)
      [] b = 19 -> BlockVram(info_, ft)
      [] b = 20 -> BlockVramInfo(info_, ft, has_enum)
      [] b = 21 -> BlockFan(info_, ft)
      [] b = 22 -> BlockFanMax(info_, ft)
      [] b = 23 -> BlockEccEnabled(info_, ft)
      [] b = 24 -> BlockEccCount(info_, ft)
      [] b = 25 -> BlockBadPages(info_, ft)
      [] b = 26 -> BlockPcie(info_, ft)
      [] b = 27 -> BlockThroughput(info_, ft)
      [] b = 28 -> BlockXgmi(info_, ft)
      [] b = 29 -> BlockNuma(info_, ft)
      [] b = 30 -> BlockThrottle(info_, ft)
      [] b = 31 -> BlockProcesses(info_, ft)

\* What a failing library query raises, and the handler every probe block
\* of get_gpu_info has: "except Exception".
LibraryError == "AmdSmiLibraryException"
\* a handler that names one exception type only
CatchesKeyErrorOnly(e) == e = "KeyError"
Catches(e) == TRUE

\* get_gpu_info run from block b to its return statement (line 373), or to
\* the first exception that leaves a block
RECURSIVE RunBlocks(_, _, _, _, _)
AfterBlock(b, r, m, ft, has_enum) ==
    IF (\E c \in r.made : ft[c] = "raise") /\ ~Catches(LibraryError)
    THEN [info |-> r.info, made |-> m \cup r.made, ran |-> b - 1, exc |-> LibraryError]
    ELSE RunBlocks(b + 1, r.info, m \cup r.made, ft, has_enum)
RunBlocks(b, info_, m, ft, has_enum) ==
    IF b > NumBlocks THEN [info |-> info_, made |-> m, ran |-> b - 1, exc |-> ""]
    ELSE AfterBlock(b, Block(b, info_, ft, has_enum), m, ft, has_enum)
get_gpu_info(ft, has_enum) == RunBlocks(1, <<>>, {}, ft, has_enum)

\* ------------------------------------------------------- print_gpu_info
\* The report template (lines 379-452): per section, the entries
\* <<label, fields, unit>>.  An entry with one field shows info[field]; one
\* with two fields shows the f-string "{min} - {max}"; the Usage Percentage
\* entry is computed from its two fields.
PctLabel == "Usage Percentage"
F1(label, f, unit) == <<label, <<f>>, unit>>
F2(label, f, g, unit) == <<label, <<f, g>>, unit>>
sections == <<
    <<"Identification", <<F1("UUID", "uuid", ""), F1("Device ID", "device_id", ""),
        F1("Compute Units", "compute_units", ""), F1("Architecture", "gfx_version", ""),
        F1("Driver Version", "driver_version", ""), F1("VBIOS Version", "vbios_version", "")>> >>,
    <<"Utilization", <<F1("GPU Utilization", "gpu_util", "%"),
        F1("Memory Utilization", "mem_util", "%"), F1("Multimedia Engine", "mm_util", "%"),
        F1("Encoder Utilization", "encoder_util", "%"),
        F1("Decoder Utilization", "decoder_util", "%"),
        F1("Performance Level", "perf_level", "")>> >>,
    <<"Temperature", <<F1("Edge Temperature", "edge_temp", "C"),
        F1("Junction Temperature", "junction_temp", "C"),
        F1("Memory Temperature", "mem_temp", "C"), F1("Critical Limit", "critical_temp", "C"),
        F1("Throttling", "throttle_status", "")>> >>,
    <<"Clocks", <<F1("GPU Clock Current", "gpu_clock", "MHz"),
        F2("GPU Clock Range", "gpu_clock_min", "gpu_clock_max", "MHz"),
        F1("Memory Clock Current", "mem_clock", "MHz"),
        F2("Memory Clock Range", "mem_clock_min", "mem_clock_max", "MHz")>> >>,
    <<"Power", <<F1("Current Consumption", "power", "W"),
        F1("Average Consumption", "power_avg", "W"), F1("Power Cap", "power_cap", "W"),
        F2("Power Cap Range", "power_cap_min", "power_cap_max", "W"),
        F1("Default Power Cap", "power_cap_default", "W")>> >>,
    <<"Voltage", <<F1("GPU Voltage", "voltage_gfx", "mV"), F1("SOC Voltage", "voltage_soc", "mV"),
        F1("Memory Voltage", "voltage_mem", "mV")>> >>,
    <<"Memory", <<F1("Type", "vram_type", ""), F1("Vendor", "vram_vendor", ""),
        F1("Bus Width", "vram_bit_width", "bits"), F1("VRAM Used", "vram_used", "MB"),
        F1("VRAM Total", "vram_total", "MB"),
        F2(PctLabel, "vram_used", "vram_total", "%")>> >>,
    <<"Cooling", <<F1("Fan Speed", "fan_speed_pct", "%"), F1("Fan RPM", "fan_speed_rpm", "RPM"),
        F1("Max Fan RPM", "fan_max_rpm", "RPM")>> >>,
    <<"PCIe", <<F1("Current Width", "pcie_width", "lanes"),
        F1("Current Speed", "pcie_speed", "GT/s"), F1("Maximum Width", "pcie_max_width", "lanes"),
        F1("Maximum Speed", "pcie_max_speed", "GT/s"), F1("Throughput TX", "pcie_tx", "MB/s"),
        F1("Throughput RX", "pcie_rx", "MB/s"), F1("Replay Count", "pcie_replay_count", ""),
        F1("NUMA Node", "numa_node", "")>> >>,
    <<"Reliability", <<F1("ECC Enabled", "ecc_enabled", ""),
        F1("Single-bit ECC Errors", "single_ecc", ""),
        F1("Double-bit ECC Errors", "double_ecc", ""), F1("Bad Pages", "bad_pages", "pages")>> >>
  >>

RECURSIVE Flatten(_)
Flatten(q) == IF q = <<>> THEN <<>> ELSE q[1][2] \o Flatten(Tail(q))
\* line 454
all_metrics == Flatten(sections)

\* f"{x:.1f}" of num/den: round to the nearest tenth, ties to even
Fix1(num, den) ==
    LET q == (10 * num) \div den
        r == (10 * num) % den
        t == q + (IF 2 * r > den \/ (2 * r = den /\ q % 2 = 1) THEN 1 ELSE 0)
    IN  ToString(t \div 10) \o "." \o ToString(t % 10)

\* lines 427-429: the value of the Usage Percentage entry
UsagePercentage(info_) ==
    LET u == ToFloat(info_["vram_used"])
        t == ToFloat(info_["vram_total"])
    IN  IF info_["vram_used"] = NA \/ info_["vram_total"] = NA THEN Ret(NA)
        ELSE IF Raised(u) THEN u
        ELSE IF Raised(t) THEN t
        ELSE IF t.c = 0 THEN Raise("ZeroDivisionError")
        ELSE Ret(Str(Fix1(100 * u.c, t.c)))

\* the value of one template entry: [ret |-> value] or [exc |-> error]
EntryValue(e, info_) ==
    IF \E j \in 1..Len(e[2]) : e[2][j] \notin DOMAIN info_ THEN Raise("KeyError")
    ELSE IF e[1] = PctLabel THEN UsagePercentage(info_)
    ELSE IF Len(e[2]) = 1 THEN Ret(info_[e[2][1]])
    ELSE Ret(Str(PyStr(info_[e[2][1]]) \o " - " \o PyStr(info_[e[2][2]])))

\* lines 458-460: the printed metric lines, <<label, formatted_value>>
MetricLines(info_) ==
    [j \in 1..Len(all_metrics) |->
        <<all_metrics[j][1],
          format_value(EntryValue(all_metrics[j], info_).ret, all_metrics[j][3], 1).ret>>]

NameWidth == 20
\* lines 473-480: one row of the process table, <<name, vram>>
ProcessRow(proc) ==
    LET name == Get(proc, "name", NA).s IN
    <<SubSeq(name, 1, IF Len(name) < NameWidth THEN Len(name) ELSE NameWidth),
      format_bytes(Get(Get(proc, "memory_usage", <<>>), "vram_mem", NA))>>

Line(kind, dev) == [kind |-> kind, dev |-> dev]

RECURSIVE SectionOut(_, _)
SectionOut(q, dev) ==
    IF q = <<>> THEN <<>>
    ELSE <<Line("section", dev)>> \o [j \in 1..Len(q[1][2]) |-> Line("metric", dev)]
         \o SectionOut(Tail(q), dev)

Banner(dev) == <<Line("rule", dev), Line("title", dev), Line("rule", dev)>>

\* print_gpu_info(gpu_index, info): what it prints and how it ends.  The
\* whole sections dict is built before the first section is printed, so an
\* error in any entry leaves only the banner on the output.
print_gpu_info(gpu_index, info_) ==
    LET bad == {j \in 1..Len(all_metrics) : Raised(EntryValue(all_metrics[j], info_))}
        first == CHOOSE j \in bad : \A k \in bad : j <= k
        procs == info_["processes"].list
    IN  IF {"product_name", "bdf"} \ DOMAIN info_ # {}
        THEN [out |-> <<Line("rule", gpu_index)>>, metrics |-> <<>>, rows |-> <<>>,
              exc |-> "KeyError"]
        ELSE IF bad # {}
        THEN [out |-> Banner(gpu_index), metrics |-> <<>>, rows |-> <<>>,
              exc |-> EntryValue(all_metrics[first], info_).exc]
        ELSE [out |-> Banner(gpu_index) \o SectionOut(sections, gpu_index)
                      \o (IF procs # <<>>
                          THEN <<Line("proc_title", gpu_index), Line("proc_header", gpu_index),
                                 Line("proc_rule", gpu_index)>>
                               \o [j \in 1..Len(procs) |-> Line("proc_row", gpu_index)]
                          ELSE <<>>),
              metrics |-> MetricLines(info_),
              rows |-> [j \in 1..Len(procs) |-> ProcessRow(procs[j])],
              exc |-> ""]

\* ------------------------------------------------------- idle components
MainIdle ==
    /\ pc = "off" /\ gpus = -1 /\ idx = 0 /\ fate = <<>> /\ hasEnum = FALSE
    /\ info = <<>> /\ col = [ran |-> 0, made |-> {}, exc |-> ""] /\ out = <<>>
    /\ lines = [metrics |-> <<>>, rows |-> <<>>, exc |-> ""]
    /\ lib = [init |-> 0, enum |-> 0, probe |-> 0, shut |-> 0, last |-> "",
              initOk |-> TRUE, shutOk |-> TRUE, devs |-> <<>>]
FvIdle == fv = [value |-> None, unit |-> "", divisor |-> 1, done |-> FALSE, result |-> Ret("")]
FbIdle == fb = [arg |-> None, at |-> "off", bv |-> [d |-> <<>>, sh |-> 0],
                unit_index |-> 0, divisions |-> 0, result |-> ""]

\* ------------------------------------------- format_value, called alone
FvValues == {NA, None, Str(""), Str(" "), Str("abc"), Str("N/A - N/A"), Str("50.0"),
             Num(0), Num(3), Flt(2000), Bool(TRUE)}
FvUnits == {"", "%", "MHz"}
FvDivisors == {0, 1, 2}

FvInit ==
    /\ MainIdle /\ FbIdle
    /\ \E v \in FvValues, u \in FvUnits, d \in FvDivisors :
          fv = [value |-> v, unit |-> u, divisor |-> d, done |-> FALSE, result |-> Ret("")]

FvCall ==
    /\ ~fv.done
    /\ fv' = [fv EXCEPT !.done = TRUE,
                        !.result = format_value(fv.value, fv.unit, fv.divisor)]
    /\ UNCHANGED <<mainVars, fb>>

FvNext == FvCall
SpecFv == FvInit /\ [][FvNext]_vars

\* ------------------------------------------- format_bytes, step by step
DigitSet == {0, 1, 512, 1023}
FbDigits == [1..MaxDigits -> DigitSet]
FbArgs == {Big(d) : d \in FbDigits} \cup {NA, None, Str("abc"), Num(1536)}

FbInit ==
    /\ MainIdle /\ FvIdle
    /\ \E a \in FbArgs :
          fb = [arg |-> a, at |-> "call", bv |-> [d |-> <<>>, sh |-> 0],
                unit_index |-> 0, divisions |-> 0, result |-> ""]

\* lines 20-34: the sentinel test, float() and the choice of the ladder
FbEnter ==
    /\ fb.at = "call"
    /\ LET f == BytesFloat(fb.arg) IN
       IF fb.arg = NA \/ fb.arg = None
       THEN fb' = [fb EXCEPT !.at = "done", !.result = "N/A"]
       ELSE IF Raised(f)
       THEN fb' = [fb EXCEPT !.at = "done", !.result = PyStr(fb.arg) \o " B"]
       ELSE fb' = [fb EXCEPT !.at = "loop", !.bv = f, !.unit_index = 0]
    /\ UNCHANGED <<mainVars, fv>>

\* lines 35-37: one iteration of the while loop
FbLoop ==
    /\ fb.at = "loop"
    /\ LoopCond(fb.bv, fb.unit_index)
    /\ fb' = [fb EXCEPT !.bv = LoopBody(fb.bv),
                        !.unit_index = fb.unit_index + 1,
                        !.divisions = fb.divisions + 1]
    /\ UNCHANGED <<mainVars, fv>>

\* line 39: the loop is left and units[unit_index] is read
FbReturn ==
    /\ fb.at = "loop"
    /\ ~LoopCond(fb.bv, fb.unit_index)
    /\ fb' = [fb EXCEPT !.at = IF fb.unit_index + 1 \in DOMAIN units THEN "done" ELSE "IndexError",
                        !.result = IF fb.unit_index + 1 \in DOMAIN units
                                   THEN Fix2(fb.bv) \o " " \o units[fb.unit_index + 1]
                                   ELSE ""]
    /\ UNCHANGED <<mainVars, fv>>

FbNext == FbEnter \/ FbLoop \/ FbReturn
SpecFb == FbInit /\ [][FbNext]_vars

\* ------------------------------------------------------- main
Called(name) == [lib EXCEPT !.last = name]
NoCol == [ran |-> 0, made |-> {}, exc |-> ""]
NoLines == [metrics |-> <<>>, rows |-> <<>>, exc |-> ""]

MainInit ==
    /\ pc = "start" /\ gpus = -1 /\ idx = 0 /\ fate = Nominal /\ hasEnum \in BOOLEAN
    /\ info = <<>> /\ col = NoCol /\ out = <<>> /\ lines = NoLines
    /\ lib = [init |-> 0, enum |-> 0, probe |-> 0, shut |-> 0, last |-> "",
              initOk |-> TRUE, shutOk |-> TRUE, devs |-> <<>>]
    /\ FvIdle /\ FbIdle

\* amdsmi_init whose failure is reported but does not end the try block
InitializeFallsThrough ==
    /\ pc = "start"
    /\ \E ok \in BOOLEAN :
          /\ lib' = [Called("amdsmi_init") EXCEPT !.init = lib.init + 1, !.initOk = ok]
          /\ pc' = "enumerate"
          /\ out' = IF ok THEN out ELSE Append(out, Line("error_init", -1))
    /\ UNCHANGED <<gpus, idx, fate, hasEnum, info, col, lines, fv, fb>>

\* line 484; a failure goes to the handler of lines 499-500
Initialize ==
    /\ pc = "start"
    /\ \E ok \in BOOLEAN :
          /\ lib' = [Called("amdsmi_init") EXCEPT !.init = lib.init + 1, !.initOk = ok]
          /\ IF ok THEN pc' = "enumerate" /\ out' = out
             ELSE pc' = "finally" /\ out' = Append(out, Line("error_init", -1))
    /\ UNCHANGED <<gpus, idx, fate, hasEnum, info, col, lines, fv, fb>>

\* lines 485-492; a failure goes to the handler of lines 499-500
Enumerate ==
    /\ pc = "enumerate"
    /\ lib' = [Called("amdsmi_get_processor_handles") EXCEPT !.enum = lib.enum + 1]
    /\ \/ /\ pc' = "finally"
          /\ out' = Append(out, Line("error_init", -1))
          /\ gpus' = gpus
       \/ \E num_gpus \in 0..MaxGpus :
             /\ gpus' = num_gpus
             /\ IF num_gpus = 0
                THEN pc' = "finally" /\ out' = Append(out, Line("no_gpus", -1))
                ELSE pc' = "loop" /\ out' = Append(out, Line("found", -1))
    /\ UNCHANGED <<idx, fate, hasEnum, info, col, lines, fv, fb>>

\* lines 493-495: get_gpu_info for device i, whose queries behave as one
\* of the fates in S says
CollectWith(S) ==
    /\ pc = "loop" /\ idx < gpus
    /\ \E ft \in S : \E r \in {get_gpu_info(ft, hasEnum)} :
             /\ fate' = ft
             /\ info' = r.info
             /\ col' = [ran |-> r.ran, made |-> r.made, exc |-> r.exc]
             /\ lib' = [Called("probe") EXCEPT !.probe = lib.probe + Cardinality(r.made),
                                                !.devs = Append(lib.devs, idx)]
    /\ pc' = "report"
    /\ UNCHANGED <<gpus, idx, hasEnum, out, lines, fv, fb>>

\* The devices of a whole run: one that answers everything, and ones with a
\* failing or unusual query of each kind the driver can tell apart.
MainFates ==
    {Nominal,
     [Nominal EXCEPT !["asic_info"] = "raise"],
     [Nominal EXCEPT !["temp_edge"] = "raise"],
     [Nominal EXCEPT !["vram_usage"] = "zero_total"],
     [Nominal EXCEPT !["vram_usage"] = "no_total"],
     [Nominal EXCEPT !["process_list"] = "empty"]}

Collect == CollectWith(MainFates)

\* lines 496-498: the report of device i, or its error line
Report ==
    /\ pc = "report"
    /\ \E r \in {print_gpu_info(idx, info)} :
          IF col.exc # ""
          THEN /\ out' = Append(out, Line("error_gpu", idx))
               /\ lines' = NoLines
          ELSE /\ out' = out \o r.out \o (IF r.exc # "" THEN <<Line("error_gpu", idx)>> ELSE <<>>)
               /\ lines' = [metrics |-> r.metrics, rows |-> r.rows, exc |-> r.exc]
    /\ pc' = "reported"
    /\ UNCHANGED <<gpus, idx, fate, hasEnum, info, col, lib, fv, fb>>

\* a loop that a device's error ends
NextDeviceStopsOnError ==
    /\ pc = "reported"
    /\ idx' = idx + 1
    /\ pc' = IF out[Len(out)].kind = "error_gpu" THEN "finally" ELSE "loop"
    /\ fate' = Nominal /\ info' = <<>> /\ col' = NoCol /\ lines' = NoLines
    /\ UNCHANGED <<gpus, hasEnum, out, lib, fv, fb>>

\* line 493: the loop advances; the record and the report of the device
\* just handled are not read again
NextDevice ==
    /\ pc = "reported"
    /\ idx' = idx + 1
    /\ pc' = "loop"
    /\ fate' = Nominal /\ info' = <<>> /\ col' = NoCol /\ lines' = NoLines
    /\ UNCHANGED <<gpus, hasEnum, out, lib, fv, fb>>

\* line 493: the loop ends
LoopExit ==
    /\ pc = "loop" /\ idx >= gpus
    /\ pc' = "finally"
    /\ UNCHANGED <<gpus, idx, fate, hasEnum, info, col, out, lines, lib, fv, fb>>

\* a shutdown that is part of the try block: skipped by the early return
\* and by the handler, and its failure is reported
ShutdownInTry ==
    /\ pc = "finally"
    /\ \E ok \in BOOLEAN :
          /\ lib' = IF gpus > 0
                    THEN [Called("amdsmi_shut_down") EXCEPT !.shut = lib.shut + 1, !.shutOk = ok]
                    ELSE lib
          /\ out' = IF gpus > 0 /\ ~ok THEN Append(out, Line("error_init", -1)) ELSE out
    /\ pc' = "done"
    /\ UNCHANGED <<gpus, idx, fate, hasEnum, info, col, lines, fv, fb>>

\* lines 501-505: the finally clause; a failure of the call is swallowed
Shutdown ==
    /\ pc = "finally"
    /\ \E ok \in BOOLEAN :
          lib' = [Called("amdsmi_shut_down") EXCEPT !.shut = lib.shut + 1, !.shutOk = ok]
    /\ pc' = "done"
    /\ UNCHANGED <<gpus, idx, fate, hasEnum, info, col, out, lines, fv, fb>>

Init == MainInit
Next == Initialize \/ Enumerate \/ Collect \/ Report \/ NextDevice \/ LoopExit \/ Shutdown
Spec == Init /\ [][Next]_vars

\* ------------------------------- one device, every fate within MaxFaults
\* main() after it has found one device
DevInit ==
    /\ pc = "loop" /\ gpus = 1 /\ idx = 0 /\ fate = Nominal /\ hasEnum \in BOOLEAN
    /\ info = <<>> /\ col = NoCol /\ out = <<Line("found", -1)>> /\ lines = NoLines
    /\ lib = [init |-> 1, enum |-> 1, probe |-> 0, shut |-> 0,
              last |-> "amdsmi_get_processor_handles",
              initOk |-> TRUE, shutOk |-> TRUE, devs |-> <<>>]
    /\ FvIdle /\ FbIdle

\* every query raises; every dict query returns an empty structure
AllRaise == [c \in Calls |-> "raise"]
AllEmpty == [c \in Calls |-> IF c \in DictCalls THEN "empty" ELSE "ok"]
DevFates == Fates \cup {AllRaise, AllEmpty}
DevCollect == CollectWith(DevFates)
DevNext == DevCollect \/ Report
SpecDev == DevInit /\ [][DevNext]_vars

\* ======================================================= the claims
LinesOf(dev, kind) == {j \in 1..Len(out) : out[j].dev = dev /\ out[j].kind = kind}
EntryFields(e) == {e[2][k] : k \in 1..Len(e[2])}
TemplateFields == UNION {EntryFields(all_metrics[j]) : j \in 1..Len(all_metrics)}
Text(label) == lines.metrics[CHOOSE j \in 1..Len(lines.metrics) : lines.metrics[j][1] = label][2]
Printed == lines.metrics # <<>>
Failing == {c \in Calls : fate[c] = "raise"}
Deviating == {c \in Calls : fate[c] # "ok"}

\* ------------------------------------------------------------------ C1
\* C1: in every run of main() amdsmi_shut_down is called exactly once, as
\* the last library call of the run, on every exit path; before the exit
\* it has not been called; and the call, failing or not, prints nothing
\* and lets main() return.
C1_ShutdownOnceAndLast ==
    /\ [](/\ pc # "done" => lib.shut = 0
          /\ pc = "done" => lib.shut = 1 /\ lib.last = "amdsmi_shut_down")
    /\ [][pc = "finally" => (out' = out /\ pc' = "done" /\ lib'.shut = lib.shut + 1)]_vars

\* a run that had a per-device error and whose shutdown call failed
C1_Witness ==
    /\ pc = "done" /\ ~lib.shutOk /\ lib.shut = 1
    /\ \E j \in 1..Len(out) : out[j].kind = "error_gpu"

\* ------------------------------------------------------------------ C2
\* the record field(s) each query is the source of, with the key read
FieldSources ==
    {<<"product_name", "asic_info", "market_name">>, <<"vendor_name", "asic_info", "vendor_name">>,
     <<"device_id", "asic_info", "device_id">>,
     <<"compute_units", "asic_info", "num_of_compute_units">>,
     <<"gfx_version", "asic_info", "target_graphics_version">>,
     <<"uuid", "device_uuid", "">>, <<"bdf", "device_bdf", "">>,
     <<"driver_version", "driver_info", "driver_version">>,
     <<"driver_date", "driver_info", "driver_date">>,
     <<"vbios_version", "vbios_info", "version">>, <<"vbios_date", "vbios_info", "build_date">>,
     <<"edge_temp", "temp_edge", "">>, <<"junction_temp", "temp_junction", "">>,
     <<"mem_temp", "temp_vram", "">>, <<"critical_temp", "temp_critical", "">>,
     <<"gpu_util", "gpu_activity", "gfx_activity">>, <<"mem_util", "gpu_activity", "umc_activity">>,
     <<"mm_util", "gpu_activity", "mm_activity">>,
     <<"gpu_clock", "clock_gfx", "clk">>, <<"gpu_clock_min", "clock_gfx", "min_clk">>,
     <<"gpu_clock_max", "clock_gfx", "max_clk">>,
     <<"mem_clock", "clock_mem", "clk">>, <<"mem_clock_min", "clock_mem", "min_clk">>,
     <<"mem_clock_max", "clock_mem", "max_clk">>,
     <<"perf_level", "perf_level", "">>,
     <<"power", "power_info", "current_socket_power">>,
     <<"power_avg", "power_info", "average_socket_power">>,
     <<"power_cap_default", "power_cap_info", "default_power_cap">>,
     <<"power_cap_min", "power_cap_info", "min_power_cap">>,
     <<"power_cap_max", "power_cap_info", "max_power_cap">>,
     <<"energy_counter", "energy_count", "energy_accumulator">>,
     <<"voltage_gfx", "power_info_2", "gfx_voltage">>,
     <<"voltage_soc", "power_info_2", "soc_voltage">>,
     <<"voltage_mem", "power_info_2", "mem_voltage">>,
     <<"vram_used", "vram_usage", "vram_used">>, <<"vram_total", "vram_usage", "vram_total">>,
     <<"vram_bit_width", "vram_info", "vram_bit_width">>,
     <<"vram_vendor", "vram_vendor", "">>,
     <<"fan_speed_pct", "fan_speed", "">>, <<"fan_speed_rpm", "fan_rpms", "">>,
     <<"fan_max_rpm", "fan_speed_max", "">>,
     <<"single_ecc", "total_ecc_count", "correctable_count">>,
     <<"double_ecc", "total_ecc_count", "uncorrectable_count">>,
     <<"pcie_tx", "pci_throughput", "sent">>, <<"pcie_rx", "pci_throughput", "received">>,
     <<"numa_node", "numa_node", "">>}
Returned(c, key) == IF c \in ScalarCalls THEN Scalar(c) ELSE Full(c)[key]

\* C2: when exactly one query X fails and every other one answers in
\* full, the record holds "N/A" in the fields sourced from X and the
\* value the library returned in the fields sourced from any other query.
C2_NoCrossContamination ==
    (pc = "report" /\ Cardinality(Failing) = 1 /\ Deviating = Failing)
        => \A fs \in FieldSources :
              /\ fs[1] \in DOMAIN info
              /\ info[fs[1]] = IF fs[2] \in Failing THEN NA ELSE Returned(fs[2], fs[3])

\* ------------------------------------------------------------------ C3
\* C3: whatever the queries do, the record get_gpu_info returns has every
\* field the report template reads, and print_gpu_info does not end in a
\* KeyError.
C3_TemplateFieldsPresent ==
    /\ (pc \in {"report", "reported"} /\ col.exc = "") => TemplateFields \subseteq DOMAIN info
    /\ pc = "reported" => lines.exc # "KeyError"

Complete(dev) == Cardinality(LinesOf(dev, "metric")) = Len(all_metrics)
Errors(dev) == Cardinality(LinesOf(dev, "error_gpu"))

\* C5: with N > 0 devices, main() collects the devices in the order
\* 0..N-1, one at a time; a device whose collection or report raised gets
\* exactly one error line and no report, any other its whole report; the
\* output of a device follows that of the devices before it; and at the end
\* every device has been collected and has its report or its error line,
\* whatever happened to the devices before it.
C5_EveryDeviceProcessed ==
    /\ lib.devs = [j \in 1..Len(lib.devs) |-> j - 1]
    /\ \A j, k \in 1..Len(out) : (j < k /\ out[j].dev >= 0) => out[j].dev <= out[k].dev
    /\ pc = "reported" =>
          /\ Len(lib.devs) = idx + 1
          /\ Errors(idx) = (IF col.exc # "" \/ lines.exc # "" THEN 1 ELSE 0)
          /\ out[Len(out)].dev = idx
    /\ (pc \in {"finally", "done"} /\ gpus > 0) =>
          /\ Len(lib.devs) = gpus
          /\ \A dev \in 0..(gpus - 1) :
                \/ Errors(dev) = 1 /\ ~Complete(dev)
                \/ Errors(dev) = 0 /\ Complete(dev)

\* device 0 raised and device 1 was still collected and reported
C5_Witness ==
    /\ pc = "done" /\ gpus = 2
    /\ Errors(0) = 1 /\ Errors(1) = 0 /\ Complete(1)
    /\ lib.devs = <<0, 1>>

\* ------------------------------------------------------------------ C6
\* C6: once amdsmi_init has failed, the output is exactly one error line
\* and stays so, and neither the enumeration nor any query is ever called.
C6_InitFailure ==
    (lib.init > 0 /\ ~lib.initOk) =>
        /\ out = <<Line("error_init", -1)>>
        /\ lib.enum = 0 /\ lib.probe = 0 /\ lib.devs = <<>>
        /\ pc \in {"finally", "done"}

\* a run that ended after its initialization failed
C6_Witness == pc = "done" /\ lib.init = 1 /\ ~lib.initOk /\ lib.shut = 1

\* ------------------------------------------------------------------ C7
\* C7: for a record with every template field, the report is printed; its
\* Usage Percentage line shows used/total*100 when vram_used and vram_total
\* are not "N/A" and vram_total is not zero, and "N/A" in every other
\* case, vram_total = 0 included; and its VRAM Used line shows the value
\* of vram_used.
C7_UsagePercentage ==
    (pc = "reported" /\ col.exc = "" /\ TemplateFields \subseteq DOMAIN info) =>
        /\ Printed
        /\ Text("VRAM Used") = format_value(info["vram_used"], "MB", 1).ret
        /\ Text(PctLabel) =
              IF info["vram_used"] # NA /\ info["vram_total"] # NA /\ info["vram_total"] # Num(0)
              THEN format_value(Str(Fix1(100 * info["vram_used"].n, info["vram_total"].n)), "%", 1).ret
              ELSE "N/A"

\* ------------------------------------------------------------------ C8
\* C8: for the inputs "N/A", None and the empty string, with any unit and
\* any divisor, format_value returns exactly "N/A".
C8_SentinelOrEmpty ==
    (fv.done /\ fv.value \in {NA, None, Str("")}) => fv.result = Ret("N/A")

\* ------------------------------------------------------------------ C9
\* C9: in a printed report, every line whose field or fields all hold
\* "N/A" shows exactly "N/A", the two-field range lines included.
C9_UnavailableShowsNA ==
    (pc = "reported" /\ Printed) =>
        \A j \in 1..Len(all_metrics) :
            (\A f \in EntryFields(all_metrics[j]) : info[f] = NA)
                => lines.metrics[j] = <<all_metrics[j][1], "N/A">>

\* ------------------------------------------------------------------ C10
\* for a byte count b given by its base-1024 digits: the smallest ladder
\* index k with b / 1024^k < 1024, or the last index
LadderIndex(d) ==
    IF \E k \in 0..(Len(units) - 1) : \A j \in (k + 2)..Len(d) : d[j] = 0
    THEN CHOOSE k \in 0..(Len(units) - 1) :
            /\ \A j \in (k + 2)..Len(d) : d[j] = 0
            /\ \A i \in 0..(k - 1) : \E j \in (i + 2)..Len(d) : d[j] # 0
    ELSE Len(units) - 1

\* C10: for a byte count b >= 0, format_bytes never reads past the end of
\* the unit ladder and returns, after exactly k divisions, b / 1024^k (of
\* the double nearest to b) to two decimals with unit k of the ladder, k
\* being the smallest index with b / 1024^k < 1024, or 4 if there is none.
C10_LadderSelection ==
    /\ fb.at # "IndexError"
    /\ fb.unit_index \in 0..(Len(units) - 1)
    /\ fb.divisions = fb.unit_index
    /\ (fb.at = "done" /\ IsBig(fb.arg)) =>
          /\ fb.unit_index = LadderIndex(fb.arg.big)
          /\ fb.result = Fix2([d |-> Float53(fb.arg.big), sh |-> LadderIndex(fb.arg.big)])
                            \o " " \o units[LadderIndex(fb.arg.big) + 1]

\* a byte count of 1024^5 or more: no index has b / 1024^k < 1024
C10_Witness ==
    /\ fb.at = "done" /\ IsBig(fb.arg) /\ fb.arg.big[Len(units) + 1] # 0
    /\ fb.unit_index = Len(units) - 1 /\ fb.divisions = Len(units) - 1

\* ------------------------------------------------------------------ C11
\* the answer of the violation-status query and the flags set in it
Violation == Reply("violation_status", fate["violation_status"])
FlagSet(key) == key \in DOMAIN Violation /\ Violation[key] = Bool(TRUE)
FlagNames ==
    (IF FlagSet("active_ppt_pwr") THEN <<"Power">> ELSE <<>>)
    \o (IF FlagSet("active_socket_thrm") THEN <<"Thermal">> ELSE <<>>)
    \o (IF FlagSet("active_prochot_thrm") THEN <<"Prochot">> ELSE <<>>)

\* C11: throttle_status is "N/A" if and only if the violation-status query
\* raised; it is "None" whenever the query answered with none of the three
\* flags set, an empty answer included; otherwise it is the names of the
\* set flags, in the order Power, Thermal, Prochot, joined by ", ".
C11_ThrottleStatus ==
    pc = "report" =>
        /\ "throttle_status" \in DOMAIN info
        /\ info["throttle_status"] =
              IF fate["violation_status"] = "raise" THEN NA
              ELSE IF FlagNames = <<>> THEN Str("None")
              ELSE Str(Join(FlagNames))

====
